---------------------------- MODULE Spec2Model ----------------------------
(***************************************************************************)
(* A model of the parser-combinator package (parser/parser.go,             *)
(* parser/state.go, parser/sequence.go) and of the example configuration   *)
(* grammar built from it.                                                  *)
(*                                                                         *)
(* A Parser[T] is a Go closure func(state) (T, state, error).  Here a      *)
(* parser is the syntax tree of the combinator calls that built it (a      *)
(* tagged tuple), and Run(p, st) is what calling the closure on st         *)
(* returns.  Closures passed by the caller (mappers, handlers, steppers,   *)
(* conditions) are tagged tuples too, applied by ApplyMapper,              *)
(* ApplyHandler and ApplyStepper; a condition func(rune) bool is the set   *)
(* of code points it accepts.                                              *)
(*                                                                         *)
(* A string is a sequence of bytes.  An ASCII byte is a one-character      *)
(* string; LeadByte followed by ContByte is the two-byte encoding of the   *)
(* code point Rune2; every other occurrence of LeadByte or ContByte is an  *)
(* invalid encoding.                                                       *)
(***************************************************************************)
EXTENDS Integers, Sequences, FiniteSets, TLC

VARIABLES
    data,    \* the input string of this run (state.data)
    pc,      \* "idle": nothing called yet; "cw": inside ConsumeWhile's for
             \* loop; "loop": inside Loop's for loop; "done": the call
             \* returned; "hung": the call is in a loop it never leaves
    call,    \* the call made: [op, args, entry]
    current, \* ConsumeWhile's `current` / Loop's `currentState`
    accum,   \* Loop's `accum`
    trace,   \* the (accum, currentState) pair each Loop iteration started from
    res      \* what the call returned: [val, next, err]

vars == <<data, pc, call, current, accum, trace, res>>

---------------------------------------------------------------------------
(* Bounds of the model *)

\* longest generic input string, in bytes
MaxLen == 3
\* most bindings in a generated configuration input
MaxBindings == 2
\* most alternatives handed to OneOf
MaxAlts == 2

---------------------------------------------------------------------------
(* Errors and values *)

Nil == "nil"
ErrNoMatch == "no match"
ErrUnconsumedInput == "unconsumed input"
\* not an error value: marks a call that never returns
Diverges == "diverges"

\* `var zero T`
Zero == <<"zero">>
Empty == <<"Empty">>
StrVal(s) == <<"string", s>>
IntVal(n) == <<"int", n>>
BoolVal(b) == <<"bool", b>>
Seq2(first, second) == <<"Seq", first, second>>
Step(done, acc, value) == <<"Step", done, acc, value>>
StepDone(step) == step[2]
StepAccum(step) == step[3]
StepValue(step) == step[4]

\* what a parser returns: (T, state, error)
Result(val, next, err) == [val |-> val, next |-> next, err |-> err]
\* the call does not return
NoReturn(st) == [val |-> Zero, next |-> st, err |-> Diverges]

---------------------------------------------------------------------------
(* state (parser/state.go) *)

LeadByte == "LEAD"
ContByte == "CONT"
Rune2 == "U+00E9"
RuneError == "U+FFFD"

State(d, offset) == [data |-> d, offset |-> offset]

\* s[from:to] of Go, 0-based, half-open
Slice(s, from, to) == SubSeq(s, from + 1, to)

remaining(s) == Slice(s.data, s.offset, Len(s.data))

consume(s, n) == [s EXCEPT !.offset = s.offset + n]

\* utf8.DecodeRuneInString on the model's byte alphabet
DecodeRuneInString(str) ==
    IF Len(str) = 0 THEN [r |-> RuneError, w |-> 0]
    ELSE IF str[1] = LeadByte
         THEN IF Len(str) >= 2 /\ str[2] = ContByte
              THEN [r |-> Rune2, w |-> 2]
              ELSE [r |-> RuneError, w |-> 1]
    ELSE IF str[1] = ContByte THEN [r |-> RuneError, w |-> 1]
    ELSE [r |-> str[1], w |-> 1]

nextRune(s) ==
    LET d == DecodeRuneInString(remaining(s))
    IN  [r |-> d.r, next |-> consume(s, d.w)]

---------------------------------------------------------------------------
(* Parsers as built by the package's functions.  Each constructor stands   *)
(* for the Go function of the same name; the closure it returns is run by  *)
(* the ...Run operator below.                                              *)

Fail == <<"Fail">>
Succeed(value) == <<"Succeed", value>>
Map(parser, mapper) == <<"Map", parser, mapper>>
AndThen(parser, handler) == <<"AndThen", parser, handler>>
OneOf(parsers) == <<"OneOf", parsers>>
ConsumeIf(condition) == <<"ConsumeIf", condition>>
ConsumeWhile(condition) == <<"ConsumeWhile", condition>>
Exactly(token) == <<"Exactly", token>>
GetString(parser) == <<"GetString", parser>>
AppendKeeping(parserT, parserU) == <<"AppendKeeping", parserT, parserU>>
AppendSkipping(parserT, parserU) == <<"AppendSkipping", parserT, parserU>>
Apply(parser, mapper) == <<"Apply", parser, mapper>>
Apply2(parser, mapper) == <<"Apply2", parser, mapper>>
Apply3(parser, mapper) == <<"Apply3", parser, mapper>>
Loop(startAccum, stepper) == <<"Loop", startAccum, stepper>>

\* func(t T) Seq[Empty, T] { return Seq[Empty, T]{first: Empty{}, second: t} }
StartKeeping(parser) == Map(parser, <<"seq1">>)
\* func(T) Empty { return Empty{} }
StartSkipping(parser) == Map(parser, <<"toEmpty">>)

\* ConsumeSome without its ConsumeIf
ConsumeSomeZeroOrMore(condition) ==
    LET s == StartSkipping(Succeed(Empty))
    IN  AppendSkipping(s, ConsumeWhile(condition))

ConsumeSome(condition) ==
    LET s == StartSkipping(ConsumeIf(condition))
    IN  AppendSkipping(s, ConsumeWhile(condition))

---------------------------------------------------------------------------
(* The example configuration grammar: its values, conditions and the       *)
(* parsers NewConfigParser builds, up to bindingParser                     *)

\* a Go string literal of ASCII characters, as the sequence of its bytes
Lower == {"a", "b", "c", "d", "e", "f", "g", "h", "i", "j", "k", "l", "m",
          "n", "o", "p", "q", "r", "s", "t", "u", "v", "w", "x", "y", "z"}
Upper == {"A", "B", "C", "D", "E", "F", "G", "H", "I", "J", "K", "L", "M",
          "N", "O", "P", "Q", "R", "S", "T", "U", "V", "W", "X", "Y", "Z"}
Digits == <<"0", "1", "2", "3", "4", "5", "6", "7", "8", "9">>

isAsciiLetter == Lower \cup Upper
isDecimalDigit == {Digits[i] : i \in 1..10}
isAlphaNum == isAsciiLetter \cup isDecimalDigit
isWhitespace == {" ", "\n", "\t"}

BindingInt(i) == <<"BindingInt", i[2]>>
BindingBool(v) == <<"BindingBool", v[2]>>
Binding(name, value) == <<"Binding", name, value>>
\* a []Binding
Slice0(elems) == <<"slice", elems>>

\* the value of one decimal digit character
DigitVal(c) == (CHOOSE i \in 1..10 : Digits[i] = c) - 1

\* strconv.Atoi on a string of decimal digits: the number it returns
RECURSIVE Atoi(_)
Atoi(digits) ==
    IF Len(digits) = 0 THEN 0
    ELSE 10 * Atoi(SubSeq(digits, 1, Len(digits) - 1)) + DigitVal(digits[Len(digits)])

\* strconv.Atoi's err != nil on a string of decimal digits without a leading
\* zero: the value does not fit an int.  Every string longer than 19 digits
\* is out of range and every string shorter than 19 digits is in range;
\* strings of exactly 19 digits lie beyond the inputs of this model.
AtoiErr(digits) == Len(digits) > 19

trueParser == Map(Exactly(<<"t", "r", "u", "e">>), <<"const", BoolVal(TRUE)>>)

falseParser == Map(Exactly(<<"f", "a", "l", "s", "e">>), <<"const", BoolVal(FALSE)>>)

boolParser == OneOf(<<trueParser, falseParser>>)

intParser == AndThen(GetString(ConsumeSome(isDecimalDigit)), <<"intHandler">>)

valueParser ==
    OneOf(<<Map(boolParser, <<"bindingBool">>), Map(intParser, <<"bindingInt">>)>>)

nameParser ==
    GetString(AndThen(ConsumeIf(isAsciiLetter), <<"nameRest">>))

whitespaceParser == ConsumeWhile(isWhitespace)

bindingParser ==
    LET s  == StartKeeping(nameParser)
        s1 == AppendSkipping(s, whitespaceParser)
        s2 == AppendSkipping(s1, Exactly(<<"=">>))
        s3 == AppendSkipping(s2, whitespaceParser)
        s4 == AppendKeeping(s3, valueParser)
    IN  Apply2(s4, <<"mkBinding">>)

---------------------------------------------------------------------------
(* The closures handed to the combinators.  A closure is a tag and the     *)
(* values it captured.                                                     *)

\* mapper func(T) A of Map and Apply
ApplyMapper(mapper, t) ==
    CASE mapper[1] = "seq1" -> Seq2(Empty, t)
      [] mapper[1] = "toEmpty" -> Empty
      \* func(Empty) bool { return true }, { return false }
      [] mapper[1] = "const" -> mapper[2]
      [] mapper[1] = "identity" -> t
      [] mapper[1] = "bindingBool" -> BindingBool(t)
      [] mapper[1] = "bindingInt" -> BindingInt(t)
      \* Step{Accum: &BindingList{binding: binding}, Done: false}
      [] mapper[1] = "firstStep" -> Step(FALSE, <<t>>, Zero)
      \* Step{Accum: &BindingList{binding: b, next: bindings}, Done: false}
      [] mapper[1] = "extendStep" -> Step(FALSE, <<t>> \o mapper[2], Zero)
      \* a mapper returning Step{Accum: a, Done: false} for a captured a
      [] mapper[1] = "continue" -> Step(FALSE, mapper[2], Zero)

\* mapper func(T, U) A of Apply2
ApplyMapper2(mapper, t, u) ==
    CASE mapper[1] = "mkBinding" -> Binding(t, u)
      [] mapper[1] = "pair" -> <<"pair", t, u>>

\* mapper func(T, U, V) A of Apply3
ApplyMapper3(mapper, t, u, v) ==
    CASE mapper[1] = "triple" -> <<"triple", t, u, v>>

\* handler func(T) Parser[U] of AndThen
ApplyHandler(handler, t) ==
    CASE handler[1] = "intHandler" ->
            LET digits == t[2]
            IN  IF Len(digits) > 1 /\ digits[1] = "0" THEN Fail
                ELSE IF AtoiErr(digits) THEN Fail
                ELSE Succeed(IntVal(Atoi(digits)))
      [] handler[1] = "nameRest" -> ConsumeWhile(isAlphaNum)
      \* a handler returning the captured parser whatever t is
      [] handler[1] = "then" -> handler[2]
      \* a handler returning Succeed(t)
      [] handler[1] = "succeed" -> Succeed(t)

\* the bindings kept by a *BindingList, from its head along next; a
\* *BindingList is the sequence of its bindings from the head, nil is <<>>
RECURSIVE bindingSlice(_)
bindingSlice(b) ==
    IF b = <<>> THEN <<>>
    ELSE <<Head(b)>> \o bindingSlice(Tail(b))

\* stepper func(A) Parser[Step[A, T]] of Loop
ApplyStepper(stepper, acc) ==
    CASE stepper[1] = "bindings" ->
            IF acc = <<>> THEN Map(bindingParser, <<"firstStep">>)
            ELSE LET s  == StartSkipping(whitespaceParser)
                     s1 == AppendSkipping(s, Exactly(<<",">>))
                     s2 == AppendSkipping(s1, whitespaceParser)
                     s3 == AppendKeeping(s2, bindingParser)
                     extend == Apply(s3, <<"extendStep", acc>>)
                 IN  OneOf(<<extend,
                             Succeed(Step(TRUE, Zero, Slice0(bindingSlice(acc))))>>)
      \* as many of the captured parser as match, counted
      [] stepper[1] = "many" ->
            OneOf(<<Map(stepper[2], <<"continue", acc + 1>>),
                    Succeed(Step(TRUE, Zero, IntVal(acc)))>>)
      \* the first captured parser then the second, a captured number of times
      [] stepper[1] = "times" ->
            IF acc < stepper[2]
            THEN AndThen(stepper[3],
                         <<"then", Map(stepper[4], <<"continue", acc + 1>>)>>)
            ELSE Succeed(Step(TRUE, Zero, IntVal(acc)))

bindingsParser == Loop(<<>>, <<"bindings">>)

ConfigurationParser ==
    LET s  == StartSkipping(Exactly(<<"[">>))
        s1 == AppendSkipping(s, whitespaceParser)
        s2 == AppendKeeping(s1, bindingsParser)
        s3 == AppendSkipping(s2, whitespaceParser)
        s4 == AppendSkipping(s3, Exactly(<<"]">>))
    IN  Apply(s4, <<"identity">>)

---------------------------------------------------------------------------
(* Running a parser: the closures of parser.go, sequence.go and state.go.  *)
(* A call that never returns yields err = Diverges, which every `err !=    *)
(* nil` branch below hands on like an error; OneOf and the two for loops   *)
(* test for it where Go would simply still be running.                     *)

RECURSIVE Run(_, _)

\* F(v), with v evaluated once however often F uses it
With(v, F(_)) == CHOOSE out \in {F(r) : r \in {v}} : TRUE

FailRun(initial) == Result(Zero, initial, ErrNoMatch)

SucceedRun(value, initial) == Result(value, initial, Nil)

MapRun(parser, mapper, initial) ==
    With(Run(parser, initial), LAMBDA r :
        IF r.err # Nil THEN Result(Zero, initial, r.err)
        ELSE Result(ApplyMapper(mapper, r.val), r.next, Nil))

AndThenRun(parser, handler, initial) ==
    With(Run(parser, initial), LAMBDA r :
        IF r.err # Nil THEN Result(Zero, initial, r.err)
        ELSE LET nextParser == ApplyHandler(handler, r.val)
             IN  Run(nextParser, r.next))

\* OneOf whose next alternative starts where the failed one stopped
RECURSIVE OneOfFromWhereFailed(_, _, _, _)
OneOfFromWhereFailed(parsers, i, initial, err) ==
    IF i > Len(parsers) THEN Result(Zero, initial, err)
    ELSE With(Run(parsers[i], initial), LAMBDA r :
             IF r.err = Nil THEN Result(r.val, r.next, Nil)
             ELSE IF r.err = Diverges THEN NoReturn(initial)
             ELSE OneOfFromWhereFailed(parsers, i + 1, r.next, r.err))

\* the range loop of OneOf from its i-th parser, err being the error so far
RECURSIVE OneOfFrom(_, _, _, _)
OneOfFrom(parsers, i, initial, err) ==
    IF i > Len(parsers) THEN Result(Zero, initial, err)
    ELSE With(Run(parsers[i], initial), LAMBDA r :
             IF r.err = Nil THEN Result(r.val, r.next, Nil)
             ELSE IF r.err = Diverges THEN NoReturn(initial)
             ELSE OneOfFrom(parsers, i + 1, initial, r.err))

OneOfRun(parsers, initial) == OneOfFrom(parsers, 1, initial, ErrNoMatch)

ConsumeIfRun(condition, initial) ==
    LET n == nextRune(initial)
    IN  IF n.r \notin condition THEN Result(Empty, initial, ErrNoMatch)
        ELSE Result(Empty, n.next, Nil)

\* one pass through the for loop of ConsumeWhile: it returns res, or goes
\* round again with cur as its `current`
ConsumeWhileIter(condition, cur) ==
    LET n == nextRune(cur)
    IN  IF n.r \notin condition
        THEN [ret |-> TRUE, res |-> Result(Empty, cur, Nil), cur |-> cur]
        ELSE [ret |-> FALSE, res |-> NoReturn(cur), cur |-> n.next]

\* the for loop of ConsumeWhile from cur; a pass that leaves `current` as it
\* was is followed by the same pass for ever
RECURSIVE ConsumeWhileFrom(_, _)
ConsumeWhileFrom(condition, cur) ==
    LET it == ConsumeWhileIter(condition, cur)
    IN  IF it.ret THEN it.res
        ELSE IF it.cur = cur THEN NoReturn(cur)
        ELSE ConsumeWhileFrom(condition, it.cur)

ConsumeWhileRun(condition, initial) == ConsumeWhileFrom(condition, initial)

\* Exactly asking whether the remaining input is a prefix of the token
ExactlyRunPrefixSwapped(token, initial) ==
    LET rem == remaining(initial)
    IN  IF Len(rem) <= Len(token) /\ SubSeq(token, 1, Len(rem)) = rem
        THEN Result(Empty, consume(initial, Len(token)), Nil)
        ELSE Result(Empty, initial, ErrNoMatch)

ExactlyRun(token, initial) ==
    LET rem == remaining(initial)
    IN  IF Len(token) <= Len(rem) /\ SubSeq(rem, 1, Len(token)) = token
        THEN Result(Empty, consume(initial, Len(token)), Nil)
        ELSE Result(Empty, initial, ErrNoMatch)

\* GetString slicing from the start of the input
GetStringFromZero(parser, initial) ==
    With(Run(parser, initial), LAMBDA r :
        IF r.err # Nil THEN Result(StrVal(<<>>), initial, r.err)
        ELSE Result(StrVal(Slice(r.next.data, 0, r.next.offset)), r.next, Nil))

GetStringRun(parser, initial) ==
    LET start == initial.offset
    IN  With(Run(parser, initial), LAMBDA r :
            IF r.err # Nil THEN Result(StrVal(<<>>), initial, r.err)
            ELSE LET end == r.next.offset
                 IN  Result(StrVal(Slice(r.next.data, start, end)), r.next, Nil))

\* AppendKeeping handing on parserU's failure as parserU returned it
AppendKeepingNoReset(parserT, parserU, initial) ==
    With(Run(parserT, initial), LAMBDA t :
        IF t.err # Nil THEN Result(Zero, initial, t.err)
        ELSE With(Run(parserU, t.next), LAMBDA u :
                 IF u.err # Nil THEN Result(Zero, u.next, u.err)
                 ELSE Result(Seq2(t.val, u.val), u.next, Nil)))

AppendKeepingRun(parserT, parserU, initial) ==
    With(Run(parserT, initial), LAMBDA t :
        IF t.err # Nil THEN Result(Zero, initial, t.err)
        ELSE With(Run(parserU, t.next), LAMBDA u :
                 IF u.err # Nil THEN Result(Zero, initial, u.err)
                 ELSE Result(Seq2(t.val, u.val), u.next, Nil)))

AppendSkippingRun(parserT, parserU, initial) ==
    With(Run(parserT, initial), LAMBDA t :
        IF t.err # Nil THEN Result(Zero, initial, t.err)
        ELSE With(Run(parserU, t.next), LAMBDA u :
                 IF u.err # Nil THEN Result(Zero, initial, u.err)
                 ELSE Result(t.val, u.next, Nil)))

\* Seq fields: seq.first is seq[2], seq.second is seq[3]
ApplyRun(parser, mapper, initial) ==
    With(Run(parser, initial), LAMBDA r :
        IF r.err # Nil THEN Result(Zero, initial, r.err)
        ELSE Result(ApplyMapper(mapper, r.val[3]), r.next, Nil))

\* Apply2 handing the combiner its two values the other way round
Apply2RunSwapped(parser, mapper, initial) ==
    With(Run(parser, initial), LAMBDA r :
        IF r.err # Nil THEN Result(Zero, initial, r.err)
        ELSE Result(ApplyMapper2(mapper, r.val[3], r.val[2][3]), r.next, Nil))

Apply2Run(parser, mapper, initial) ==
    With(Run(parser, initial), LAMBDA r :
        IF r.err # Nil THEN Result(Zero, initial, r.err)
        ELSE Result(ApplyMapper2(mapper, r.val[2][3], r.val[3]), r.next, Nil))

Apply3Run(parser, mapper, initial) ==
    With(Run(parser, initial), LAMBDA r :
        IF r.err # Nil THEN Result(Zero, initial, r.err)
        ELSE Result(ApplyMapper3(mapper, r.val[2][2][3], r.val[2][3], r.val[3]),
                    r.next, Nil))

\* Loop failing at the cursor its failed pass began at
LoopIterKeepsProgress(stepper, acc, cur, initial) ==
    LET parser == ApplyStepper(stepper, acc)
    IN  With(Run(parser, cur), LAMBDA r :
            IF r.err # Nil
            THEN [ret |-> TRUE, res |-> Result(Zero, cur, r.err),
                  acc |-> acc, cur |-> cur]
            ELSE IF StepDone(r.val)
            THEN [ret |-> TRUE, res |-> Result(StepValue(r.val), r.next, Nil),
                  acc |-> acc, cur |-> cur]
            ELSE [ret |-> FALSE, res |-> NoReturn(initial),
                  acc |-> StepAccum(r.val), cur |-> r.next])

\* a pass of Loop that goes round again without `currentState = nextState`
LoopIterNoAdvance(stepper, acc, cur, initial) ==
    LET parser == ApplyStepper(stepper, acc)
    IN  With(Run(parser, cur), LAMBDA r :
            IF r.err # Nil
            THEN [ret |-> TRUE, res |-> Result(Zero, initial, r.err),
                  acc |-> acc, cur |-> cur]
            ELSE IF StepDone(r.val)
            THEN [ret |-> TRUE, res |-> Result(StepValue(r.val), r.next, Nil),
                  acc |-> acc, cur |-> cur]
            ELSE [ret |-> FALSE, res |-> NoReturn(initial),
                  acc |-> StepAccum(r.val), cur |-> cur])

\* one pass through the for loop of Loop: it returns res, or goes round
\* again with acc and cur as its `accum` and `currentState`
LoopIter(stepper, acc, cur, initial) ==
    LET parser == ApplyStepper(stepper, acc)
    IN  With(Run(parser, cur), LAMBDA r :
            IF r.err # Nil
            THEN [ret |-> TRUE, res |-> Result(Zero, initial, r.err),
                  acc |-> acc, cur |-> cur]
            ELSE IF StepDone(r.val)
            THEN [ret |-> TRUE, res |-> Result(StepValue(r.val), r.next, Nil),
                  acc |-> acc, cur |-> cur]
            ELSE [ret |-> FALSE, res |-> NoReturn(initial),
                  acc |-> StepAccum(r.val), cur |-> r.next])

\* the for loop of Loop from (acc, cur); a pass that leaves both as they
\* were is followed by the same pass for ever
RECURSIVE LoopFrom(_, _, _, _)
LoopFrom(stepper, acc, cur, initial) ==
    With(LoopIter(stepper, acc, cur, initial), LAMBDA it :
        IF it.ret THEN it.res
        ELSE IF it.cur = cur /\ it.acc = acc THEN NoReturn(initial)
        ELSE LoopFrom(stepper, it.acc, it.cur, initial))

LoopRun(startAccum, stepper, initial) ==
    LoopFrom(stepper, startAccum, initial, initial)

Run(p, st) ==
    CASE p[1] = "Fail" -> FailRun(st)
      [] p[1] = "Succeed" -> SucceedRun(p[2], st)
      [] p[1] = "Map" -> MapRun(p[2], p[3], st)
      [] p[1] = "AndThen" -> AndThenRun(p[2], p[3], st)
      [] p[1] = "OneOf" -> OneOfRun(p[2], st)
      [] p[1] = "ConsumeIf" -> ConsumeIfRun(p[2], st)
      [] p[1] = "ConsumeWhile" -> ConsumeWhileRun(p[2], st)
      [] p[1] = "Exactly" -> ExactlyRun(p[2], st)
      [] p[1] = "GetString" -> GetStringRun(p[2], st)
      [] p[1] = "AppendKeeping" -> AppendKeepingRun(p[2], p[3], st)
      [] p[1] = "AppendSkipping" -> AppendSkippingRun(p[2], p[3], st)
      [] p[1] = "Apply" -> ApplyRun(p[2], p[3], st)
      [] p[1] = "Apply2" -> Apply2Run(p[2], p[3], st)
      [] p[1] = "Apply3" -> Apply3Run(p[2], p[3], st)
      [] p[1] = "Loop" -> LoopRun(p[2], p[3], st)

\* Parse without the test for unconsumed input
ParseNoEndCheck(parser, d) ==
    LET initial == State(d, 0)
    IN  With(Run(parser, initial), LAMBDA r :
            IF r.err # Nil THEN [val |-> Zero, err |-> r.err]
            ELSE [val |-> r.val, err |-> r.err])

\* Parse[T]: (T, error)
Parse(parser, d) ==
    LET initial == State(d, 0)
    IN  With(Run(parser, initial), LAMBDA r :
            IF r.err # Nil THEN [val |-> Zero, err |-> r.err]
            ELSE IF r.next.offset < Len(r.next.data)
            THEN [val |-> Zero, err |-> ErrUnconsumedInput]
            ELSE [val |-> r.val, err |-> r.err])

---------------------------------------------------------------------------
(* Inputs of the runs *)

\* all strings over the bytes in `bytes` of length at most n
RECURSIVE StringsUpTo(_, _)
StringsUpTo(bytes, n) ==
    IF n = 0 THEN {<<>>}
    ELSE LET shorter == StringsUpTo(bytes, n - 1)
         IN  shorter \cup {Append(s, b) : s \in shorter, b \in bytes}

GenBytes == {"a", LeadByte, ContByte}
\* the code points decoding a string over GenBytes can yield
GenRunes == {"a", Rune2, RuneError}
GenInputs == StringsUpTo(GenBytes, MaxLen)

\* the conditions: every predicate on GenRunes
Conds == SUBSET GenRunes

\* the end-to-end inputs of the configuration grammar
SampleInputs ==
    { <<"[", "a", "=", "1", "]">>,
      <<"[", "x", "=", "0", "1", "]">>,
      <<"[", "x", "=", "1", "]", " ">> }

Inputs == GenInputs \cup SampleInputs

\* parsers the combinators are handed: one that always fails, ones that
\* succeed with and without consuming, one that fails having consumed
\* (AndThen), one that never returns at the end of the input
Lib ==
    << Fail,
       Succeed(IntVal(7)),
       ConsumeIf({"a"}),
       ConsumeWhile({Rune2}),
       Exactly(<<"a", LeadByte>>),
       AndThen(ConsumeIf({"a"}), <<"then", ConsumeIf({Rune2})>>),
       ConsumeWhile({"a", RuneError}),
       GetString(ConsumeSome({"a", Rune2})) >>

Handlers ==
    << <<"then", Fail>>,
       <<"then", ConsumeIf({Rune2})>>,
       <<"succeed">> >>

Steppers ==
    << <<"many", ConsumeIf({"a"})>>,
       <<"many", ConsumeWhile({"a"})>>,
       <<"times", 2, ConsumeIf({"a"}), ConsumeIf({Rune2})>>,
       <<"bindings">> >>

\* the startAccum a stepper is used with: nil for the list of bindings, 0
\* for a count
StartAccum(stepper) == IF stepper[1] = "bindings" THEN <<>> ELSE 0

\* the alternatives OneOf is handed: one that always fails, ones that
\* succeed with and without consuming, one that fails having consumed, one
\* that never returns at the end of the input
Alts == <<Lib[1], Lib[2], Lib[3], Lib[6], Lib[7]>>

\* all sequences over 1..Len(Alts) of length at most n
RECURSIVE Choices(_)
Choices(n) ==
    IF n = 0 THEN {<<>>}
    ELSE LET shorter == Choices(n - 1)
         IN  shorter \cup {Append(c, i) : c \in shorter, i \in 1..Len(Alts)}

Pick(choice) == [k \in 1..Len(choice) |-> Alts[choice[k]]]

\* most steps of a sequence handed to Apply, Apply2, Apply3
MaxSteps == 4

\* what the steps of a sequence consume: one letter, two-byte runes, a
\* token, nothing
Consumers ==
    << ConsumeIf({"a"}),
       ConsumeWhile({Rune2}),
       Exactly(<<"a">>),
       Succeed(Empty) >>

\* step k of a sequence: it yields its own position k; rot chooses what the
\* steps consume
StepParser(k, rot) ==
    Map(Consumers[((k + rot) % Len(Consumers)) + 1], <<"const", IntVal(k)>>)

\* which steps are kept: all keep/skip patterns of at most n steps that keep
\* one, two or three of them
RECURSIVE Patterns(_)
Patterns(n) ==
    IF n = 0 THEN {<<>>}
    ELSE LET shorter == Patterns(n - 1)
         IN  shorter \cup {Append(q, keep) : q \in shorter, keep \in BOOLEAN}

Kept(pattern) == {k \in 1..Len(pattern) : pattern[k]}

Shapes == {q \in Patterns(MaxSteps) : Cardinality(Kept(q)) \in 1..3}

\* s := StartKeeping(p1) or StartSkipping(p1); s1 := AppendKeeping(s, p2) or
\* AppendSkipping(s, p2); ...
RECURSIVE Sequence(_, _, _)
Sequence(pattern, rot, n) ==
    IF n = 1
    THEN IF pattern[1] THEN StartKeeping(StepParser(1, rot))
         ELSE StartSkipping(StepParser(1, rot))
    ELSE IF pattern[n]
         THEN AppendKeeping(Sequence(pattern, rot, n - 1), StepParser(n, rot))
         ELSE AppendSkipping(Sequence(pattern, rot, n - 1), StepParser(n, rot))

---------------------------------------------------------------------------
(* The runs: one call of one of the package's functions on the input *)

NoCall(d) == [op |-> "none", args |-> <<>>, entry |-> State(d, 0)]
NoResult(d) == Result(Zero, State(d, 0), Nil)

Init ==
    /\ data \in Inputs
    /\ pc = "idle"
    /\ call = NoCall(data)
    /\ current = State(data, 0)
    /\ accum = Zero
    /\ trace = <<>>
    /\ res = NoResult(data)

\* the call op(args) made at entry comes back with r, or never
Returns(op, args, entry, r) ==
    /\ pc = "idle"
    /\ call' = [op |-> op, args |-> args, entry |-> entry]
    /\ res' = r
    /\ pc' = IF r.err = Diverges THEN "hung" ELSE "done"
    /\ UNCHANGED <<data, current, accum, trace>>

DoParse ==
    /\ pc = "idle"
    /\ \E i \in 1..(Len(Lib) + 1) :
           LET parser == IF i <= Len(Lib) THEN Lib[i] ELSE ConfigurationParser
               initial == State(data, 0)
               r == Parse(parser, data)
           IN  Returns("Parse", <<parser>>, initial,
                       Result(r.val, initial, r.err))

DoAndThen ==
    /\ pc = "idle"
    /\ \E i \in 1..Len(Lib), j \in 1..Len(Handlers), off \in 0..Len(data) :
           LET initial == State(data, off)
           IN  Returns("AndThen", <<Lib[i], Handlers[j]>>, initial,
                       AndThenRun(Lib[i], Handlers[j], initial))

DoOneOf ==
    /\ pc = "idle"
    /\ \E choice \in Choices(MaxAlts), off \in 0..Len(data) :
           LET initial == State(data, off)
           IN  Returns("OneOf", <<Pick(choice)>>, initial,
                       OneOfRun(Pick(choice), initial))

DoConsumeIf ==
    /\ pc = "idle"
    /\ \E condition \in Conds, off \in 0..Len(data) :
           LET initial == State(data, off)
           IN  Returns("ConsumeIf", <<condition>>, initial,
                       ConsumeIfRun(condition, initial))

DoConsumeSome ==
    /\ pc = "idle"
    /\ \E condition \in Conds, off \in 0..Len(data) :
           LET initial == State(data, off)
           IN  Returns("ConsumeSome", <<condition>>, initial,
                       Run(ConsumeSome(condition), initial))

DoGetString ==
    /\ pc = "idle"
    /\ \E i \in 1..Len(Lib), off \in 0..Len(data) :
           LET initial == State(data, off)
           IN  Returns("GetString", <<Lib[i]>>, initial,
                       GetStringRun(Lib[i], initial))

DoAppendKeeping ==
    /\ pc = "idle"
    /\ \E i \in 1..Len(Lib), j \in 1..Len(Lib), off \in 0..Len(data) :
           LET initial == State(data, off)
           IN  Returns("AppendKeeping", <<Lib[i], Lib[j]>>, initial,
                       AppendKeepingRun(Lib[i], Lib[j], initial))

DoAppendSkipping ==
    /\ pc = "idle"
    /\ \E i \in 1..Len(Lib), j \in 1..Len(Lib), off \in 0..Len(data) :
           LET initial == State(data, off)
           IN  Returns("AppendSkipping", <<Lib[i], Lib[j]>>, initial,
                       AppendSkippingRun(Lib[i], Lib[j], initial))

\* most bytes of a token handed to Exactly
MaxToken == 2

\* the tokens handed to Exactly, the empty one too
Tokens == StringsUpTo(GenBytes, MaxToken)

DoExactly ==
    /\ pc = "idle"
    /\ \E token \in Tokens, off \in 0..Len(data) :
           LET initial == State(data, off)
           IN  Returns("Exactly", <<token>>, initial, ExactlyRun(token, initial))

\* the mappers handed to Map
Mappers == << <<"toEmpty">>, <<"const", BoolVal(TRUE)>>, <<"seq1">> >>

DoMap ==
    /\ pc = "idle"
    /\ \E i \in 1..Len(Lib), j \in 1..Len(Mappers), off \in 0..Len(data) :
           LET initial == State(data, off)
           IN  Returns("Map", <<Lib[i], Mappers[j]>>, initial,
                       MapRun(Lib[i], Mappers[j], initial))

\* Apply, Apply2 or Apply3, by the number of kept steps, on a sequence
DoApply ==
    /\ pc = "idle"
    /\ \E pattern \in Shapes, rot \in 1..Len(Consumers), off \in 0..Len(data) :
           LET initial == State(data, off)
               parser == Sequence(pattern, rot, Len(pattern))
               kept == Cardinality(Kept(pattern))
           IN  Returns("Apply", <<pattern, rot>>, initial,
                       IF kept = 1 THEN ApplyRun(parser, <<"identity">>, initial)
                       ELSE IF kept = 2 THEN Apply2Run(parser, <<"pair">>, initial)
                       ELSE Apply3Run(parser, <<"triple">>, initial))

\* ConsumeWhile(condition) is called: `current := initial`
ConsumeWhileBegin ==
    /\ pc = "idle"
    /\ \E condition \in Conds, off \in 0..Len(data) :
           /\ call' = [op |-> "ConsumeWhile", args |-> <<condition>>,
                       entry |-> State(data, off)]
           /\ current' = State(data, off)
           /\ pc' = "cw"
           /\ UNCHANGED <<data, accum, trace, res>>

\* one pass through ConsumeWhile's for loop.  A pass that goes round again
\* with `current` as it was is followed by the same pass for ever: the call
\* never returns.
ConsumeWhileStep ==
    /\ pc = "cw"
    /\ LET it == ConsumeWhileIter(call.args[1], current)
       IN  IF it.ret
           THEN /\ res' = it.res
                /\ pc' = "done"
                /\ UNCHANGED current
           ELSE IF it.cur = current
           THEN /\ pc' = "hung"
                /\ UNCHANGED <<current, res>>
           ELSE /\ current' = it.cur
                /\ UNCHANGED <<pc, res>>
    /\ UNCHANGED <<data, call, accum, trace>>

\* Loop(startAccum, stepper) is called: `accum := startAccum`,
\* `currentState := initial`
LoopBegin ==
    /\ pc = "idle"
    /\ \E i \in 1..Len(Steppers), off \in 0..Len(data) :
           /\ call' = [op |-> "Loop", args |-> <<StartAccum(Steppers[i]), Steppers[i]>>,
                       entry |-> State(data, off)]
           /\ accum' = StartAccum(Steppers[i])
           /\ current' = State(data, off)
           /\ trace' = <<>>
           /\ pc' = "loop"
           /\ UNCHANGED <<data, res>>

\* most passes through Loop's for loop that a run follows
MaxIters == 5

\* one pass through Loop's for loop
LoopStep ==
    /\ pc = "loop"
    /\ Len(trace) < MaxIters
    /\ LET it == LoopIter(call.args[2], accum, current, call.entry)
       IN  /\ trace' = Append(trace, [acc |-> accum, cur |-> current])
           /\ IF it.ret
              THEN /\ res' = it.res
                   /\ pc' = IF it.res.err = Diverges THEN "hung" ELSE "done"
                   /\ UNCHANGED <<accum, current>>
              ELSE /\ accum' = it.acc
                   /\ current' = it.cur
                   /\ UNCHANGED <<pc, res>>
    /\ UNCHANGED <<data, call>>

Next ==
    \/ DoParse
    \/ DoAndThen
    \/ DoOneOf
    \/ DoConsumeIf
    \/ DoConsumeSome
    \/ DoGetString
    \/ DoAppendKeeping
    \/ DoAppendSkipping
    \/ DoExactly
    \/ DoMap
    \/ DoApply
    \/ ConsumeWhileBegin
    \/ ConsumeWhileStep
    \/ LoopBegin
    \/ LoopStep

Spec == Init /\ [][Next]_vars

---------------------------------------------------------------------------
(* Runs of the configuration parser on well-formed configuration inputs *)

\* the decimal numeral of n, without leading zeros
RECURSIVE Decimal(_)
Decimal(n) ==
    IF n < 10 THEN <<Digits[n + 1]>>
    ELSE Decimal(n \div 10) \o <<Digits[(n % 10) + 1]>>

ConfigNames == {<<"a">>, <<"b", "2">>}
ConfigValues ==
    {<<"BindingInt", 0>>, <<"BindingInt", 42>>,
     <<"BindingBool", TRUE>>, <<"BindingBool", FALSE>>}
ConfigBindings == {Binding(StrVal(n), v) : n \in ConfigNames, v \in ConfigValues}

\* all lists of 1..n bindings
RECURSIVE BindingLists(_)
BindingLists(n) ==
    IF n = 1 THEN {<<b>> : b \in ConfigBindings}
    ELSE LET shorter == BindingLists(n - 1)
         IN  shorter \cup {Append(l, b) : l \in shorter, b \in ConfigBindings}

RenderValue(v) ==
    IF v[1] = "BindingInt" THEN Decimal(v[2])
    ELSE IF v[2] THEN <<"t", "r", "u", "e">> ELSE <<"f", "a", "l", "s", "e">>

\* name ws '=' ws value
RenderBinding(b, ws) == b[2][2] \o ws \o <<"=">> \o ws \o RenderValue(b[3])

\* binding | binding ws ',' ws bindings
RECURSIVE RenderBindings(_, _)
RenderBindings(bs, ws) ==
    IF Len(bs) = 1 THEN RenderBinding(bs[1], ws)
    ELSE RenderBinding(bs[1], ws) \o ws \o <<",">> \o ws
         \o RenderBindings(Tail(bs), ws)

\* '[' ws bindings ws ']'
Render(bs, ws) == <<"[">> \o ws \o RenderBindings(bs, ws) \o ws \o <<"]">>

Whitespaces == {<<>>, <<" ">>}

ConfigInputs == {Render(bs, ws) : bs \in BindingLists(MaxBindings), ws \in Whitespaces}

ConfigInit ==
    /\ data \in ConfigInputs
    /\ pc = "idle"
    /\ call = NoCall(data)
    /\ current = State(data, 0)
    /\ accum = Zero
    /\ trace = <<>>
    /\ res = NoResult(data)

\* Parse(p.ConfigurationParser, data)
ParseConfiguration ==
    /\ pc = "idle"
    /\ LET initial == State(data, 0)
           r == Parse(ConfigurationParser, data)
       IN  Returns("Parse", <<ConfigurationParser>>, initial,
                   Result(r.val, initial, r.err))

ConfigNext == ParseConfiguration

ConfigSpec == ConfigInit /\ [][ConfigNext]_vars

---------------------------------------------------------------------------
(* Runs of Loop, on the inputs above and on lists of bindings, whole and  *)
(* cut short                                                               *)

\* n bindings a=1, a=2, ...
Listing(n) == [k \in 1..n |-> Binding(StrVal(<<"a">>), BindingInt(IntVal(k)))]

\* every prefix of the text of a configuration of 1..MaxBindings bindings
LoopInputs ==
    Inputs \cup
    UNION {{SubSeq(text, 1, len) : len \in 0..Len(text)} :
              text \in {Render(Listing(n), ws) :
                           n \in 1..MaxBindings, ws \in Whitespaces}}

LoopInit ==
    /\ data \in LoopInputs
    /\ pc = "idle"
    /\ call = NoCall(data)
    /\ current = State(data, 0)
    /\ accum = Zero
    /\ trace = <<>>
    /\ res = NoResult(data)

LoopNext ==
    \/ LoopBegin
    \/ LoopStep

LoopSpec == LoopInit /\ [][LoopNext]_vars

---------------------------------------------------------------------------
(* The claims *)

Returned(op) == pc = "done" /\ call.op = op
Failed(r) == r.err # Nil /\ r.err # Diverges

\* C1: Parse runs the parser from offset 0 of the input.  If the parser
\* fails, Parse returns the parser's error and the zero value; if it
\* succeeds short of the end of the input, Parse returns ErrUnconsumedInput;
\* if it succeeds at the end of the input, Parse returns the parser's value
\* and no error.  One of the three is always the case when the parser
\* returns.
C1_ParseOutcomes ==
    call.op = "Parse" =>
        LET r == Run(call.args[1], State(data, 0))
        IN  /\ pc = "done" <=> r.err # Diverges
            /\ Failed(r) => res.err = r.err /\ res.val = Zero
            /\ (r.err = Nil /\ r.next.offset < Len(data)) =>
                   res.err = ErrUnconsumedInput /\ res.val = Zero
            /\ (r.err = Nil /\ r.next.offset = Len(data)) =>
                   res.err = Nil /\ res.val = r.val
            /\ r.err = Nil => r.next.offset <= Len(data)

\* Parse of a parser that succeeds without consuming, on the empty input, and
\* Parse leaving input unconsumed
C1_Witness ==
    /\ Returned("Parse")
    /\ \/ data = <<>> /\ res.err = Nil /\ res.val = IntVal(7)
       \/ data = <<"[", "x", "=", "1", "]", " ">>
          /\ call.args[1] = ConfigurationParser
          /\ res.err = ErrUnconsumedInput

\* C2: on a well-formed configuration input of n >= 1 bindings, Parse of the
\* configuration parser returns the n bindings in the order in which they
\* appear in the input.
C2_BindingsInInputOrder ==
    Returned("Parse") =>
        \A bs \in BindingLists(MaxBindings), ws \in Whitespaces :
            data = Render(bs, ws) =>
                res.err = Nil /\ res.val = Slice0(bs)

\* C3: when AndThen fails, whether in its parser or in the parser its
\* handler returned, the cursor it returns is the cursor it was entered at.
C3_AndThenFailsAtomically ==
    (Returned("AndThen") /\ res.err # Nil) => res.next = call.entry

\* C4: OneOf runs its alternatives in the order listed, each from the entry
\* cursor, and returns the value and cursor of the first that succeeds
\* without running the later ones; if all fail it returns the error of the
\* last with the entry cursor, and ErrNoMatch with the entry cursor if there
\* is none.
C4_OneOfFirstSuccess ==
    call.op = "OneOf" =>
        LET parsers == call.args[1]
            n == Len(parsers)
            out(i) == Run(parsers[i], call.entry)
            \* the alternatives before the i-th all fail
            reaches(i) == \A j \in 1..(i - 1) : Failed(out(j))
        IN  /\ \A i \in 1..n :
                   (reaches(i) /\ out(i).err = Nil) =>
                       pc = "done" /\ res = Result(out(i).val, out(i).next, Nil)
            /\ (n > 0 /\ reaches(n + 1)) =>
                   pc = "done" /\ res = Result(Zero, call.entry, out(n).err)
            /\ n = 0 => pc = "done" /\ res = Result(Zero, call.entry, ErrNoMatch)

\* OneOf whose first alternative fails having consumed and whose second
\* succeeds from the entry cursor; and OneOf whose first alternative
\* succeeds and whose second would never return
C4_Witness ==
    /\ Returned("OneOf")
    /\ Len(call.args[1]) = 2
    /\ LET first == Run(call.args[1][1], call.entry)
           second == Run(call.args[1][2], call.entry)
       IN  \/ /\ Failed(first)
              /\ first.next.offset > call.entry.offset
              /\ second.err = Nil
              /\ res.next = second.next
              /\ res.next.offset > call.entry.offset
           \/ /\ first.err = Nil
              /\ second.err = Diverges
              /\ res.err = Nil

\* C5: ConsumeWhile always succeeds: whatever the condition and the cursor,
\* the end of the input included, the run ends and returns no error, and it
\* consumes nothing when the code point at the cursor does not meet the
\* condition.
C5_ConsumeWhileAlwaysSucceeds ==
    call.op = "ConsumeWhile" =>
        /\ pc # "hung"
        /\ pc = "done" =>
               /\ res.err = Nil
               /\ nextRune(call.entry).r \notin call.args[1] =>
                      res.next = call.entry

\* C6: when ConsumeIf succeeds it has consumed one code point, so the
\* offset it returns is the entry offset plus that code point's width, which
\* is at least 1; when it fails the error is ErrNoMatch and the cursor
\* returned is the entry cursor.
C6_ConsumeIfConsumesOne ==
    Returned("ConsumeIf") =>
        LET w == DecodeRuneInString(remaining(call.entry)).w
        IN  /\ res.err = Nil =>
                   /\ res.next.offset = call.entry.offset + w
                   /\ res.next.offset > call.entry.offset
            /\ res.err # Nil => res.err = ErrNoMatch /\ res.next = call.entry

\* every code point of st.data from st's cursor up to offset `to` meets
\* the condition
RECURSIVE AllMeet(_, _, _)
AllMeet(condition, st, to) ==
    st.offset >= to \/
        LET n == nextRune(st)
        IN  n.r \in condition /\ n.next.offset > st.offset
            /\ AllMeet(condition, n.next, to)

\* C7: ConsumeSome is ConsumeIf followed by ConsumeWhile: it fails with
\* ErrNoMatch and the entry cursor when the first code point does not meet
\* the condition; when it succeeds, the offset returned is greater than the
\* entry offset and is that of the first code point that does not meet the
\* condition.
C7_ConsumeSomeIsIfThenWhile ==
    call.op = "ConsumeSome" =>
        LET condition == call.args[1]
            first == ConsumeIfRun(condition, call.entry)
            rest == ConsumeWhileRun(condition, first.next)
        IN  /\ nextRune(call.entry).r \notin condition =>
                   pc = "done" /\ res.err = ErrNoMatch /\ res.next = call.entry
            /\ first.err # Nil =>
                   pc = "done" /\ res.err = first.err /\ res.next = call.entry
            /\ (first.err = Nil /\ rest.err = Nil) =>
                   pc = "done" /\ res.err = Nil /\ res.next = rest.next
            /\ (first.err = Nil /\ rest.err = Diverges) => pc = "hung"
            /\ (pc = "done" /\ res.err = Nil) =>
                   /\ res.next.offset > call.entry.offset
                   /\ AllMeet(condition, call.entry, res.next.offset)
                   /\ nextRune(res.next).r \notin condition

\* ConsumeSome consuming two bytes and stopping before the end of the input
C7_Witness ==
    /\ Returned("ConsumeSome")
    /\ res.err = Nil
    /\ res.next.offset = call.entry.offset + 2
    /\ res.next.offset < Len(data)

\* C8: Loop is the iteration in which pass i runs stepper(accum_i) from
\* cursor_i, accum_1 being startAccum and cursor_1 the entry cursor, and a
\* Continue step gives accum_i+1 and cursor_i+1; at the first Done step Loop
\* returns the step's Value and the cursor after that step; if a step
\* fails, Loop fails with the step's error and the entry cursor.
C8_LoopIsTheIteration ==
    call.op = "Loop" =>
        LET stepper == call.args[2]
            n == Len(trace)
            out(i) == Run(ApplyStepper(stepper, trace[i].acc), trace[i].cur)
            \* the pair pass i + 1 starts from
            after(i) == IF i < n THEN trace[i + 1]
                        ELSE [acc |-> accum, cur |-> current]
        IN  /\ after(0) = [acc |-> call.args[1], cur |-> call.entry]
            /\ \A i \in 1..n :
                   i < n \/ pc = "loop" =>
                       /\ out(i).err = Nil
                       /\ ~StepDone(out(i).val)
                       /\ after(i) = [acc |-> StepAccum(out(i).val),
                                      cur |-> out(i).next]
            /\ pc = "done" =>
                   /\ n >= 1
                   /\ \/ /\ out(n).err = Nil
                         /\ StepDone(out(n).val)
                         /\ res = Result(StepValue(out(n).val), out(n).next, Nil)
                      \/ /\ Failed(out(n))
                         /\ res = Result(Zero, call.entry, out(n).err)
            /\ pc = "hung" => n >= 1 /\ out(n).err = Diverges

\* Loop failing in its second pass, the first having consumed
C8_Witness ==
    /\ Returned("Loop")
    /\ res.err = ErrNoMatch
    /\ Len(trace) = 2
    /\ trace[2].cur.offset > call.entry.offset
    /\ res.next = call.entry

\* C9: GetString(p) succeeds exactly when p does, and then returns the
\* substring of the input from the entry offset to the offset p finished at
\* (not p's value) with p's final cursor; when p fails, GetString fails
\* with p's error and the entry cursor.
C9_GetStringIsTheSlice ==
    call.op = "GetString" =>
        LET r == Run(call.args[1], call.entry)
        IN  /\ pc = "done" <=> r.err # Diverges
            /\ r.err = Nil =>
                   /\ res.err = Nil
                   /\ res.next = r.next
                   /\ res.val = StrVal(SubSeq(data, call.entry.offset + 1,
                                              r.next.offset))
            /\ Failed(r) => res.err = r.err /\ res.next = call.entry

\* GetString from a cursor inside the input, returning a string of two
\* bytes
C9_Witness ==
    /\ Returned("GetString")
    /\ res.err = Nil
    /\ call.entry.offset > 0
    /\ Len(res.val[2]) = 2
    /\ res.val[2] = <<data[call.entry.offset + 1], data[call.entry.offset + 2]>>

\* C10: AppendKeeping and AppendSkipping run parserT from the entry cursor
\* and then parserU from the cursor parserT reached; if either fails, the
\* combination fails with that error and the entry cursor; on success the
\* cursor is parserU's, AppendKeeping's value is the pair (t, u) and
\* AppendSkipping's is t.
C10_AppendRunsBothOrResets ==
    call.op \in {"AppendKeeping", "AppendSkipping"} =>
        LET t == Run(call.args[1], call.entry)
            u == Run(call.args[2], t.next)
        IN  /\ Failed(t) =>
                   pc = "done" /\ res.err = t.err /\ res.next = call.entry
            /\ (t.err = Nil /\ Failed(u)) =>
                   pc = "done" /\ res.err = u.err /\ res.next = call.entry
            /\ (t.err = Nil /\ u.err = Nil) =>
                   /\ pc = "done" /\ res.err = Nil /\ res.next = u.next
                   /\ call.op = "AppendKeeping" => res.val = Seq2(t.val, u.val)
                   /\ call.op = "AppendSkipping" => res.val = t.val
            /\ pc = "hung" <=> (t.err = Diverges \/ (t.err = Nil /\ u.err = Diverges))

\* AppendKeeping whose parserT consumed and whose parserU failed
C10_Witness ==
    /\ Returned("AppendKeeping")
    /\ res.err = ErrNoMatch
    /\ res.next = call.entry
    /\ LET t == Run(call.args[1], call.entry)
       IN  t.err = Nil /\ t.next.offset > call.entry.offset

\* the steps of a sequence run one after the other from cur: whether all
\* succeeded, the values of the kept ones in the order the steps ran, and
\* the cursor after the last one
RECURSIVE StepsFrom(_, _, _, _, _)
StepsFrom(pattern, rot, k, cur, values) ==
    IF k > Len(pattern) THEN [ok |-> TRUE, values |-> values, cur |-> cur]
    ELSE With(Run(StepParser(k, rot), cur), LAMBDA r :
             IF r.err # Nil THEN [ok |-> FALSE, values |-> values, cur |-> cur]
             ELSE StepsFrom(pattern, rot, k + 1, r.next,
                            IF pattern[k] THEN Append(values, r.val) ELSE values))

\* what the combiner of Apply, Apply2, Apply3 returns for the kept values
Combined(values) ==
    IF Len(values) = 1 THEN values[1]
    ELSE IF Len(values) = 2 THEN <<"pair", values[1], values[2]>>
    ELSE <<"triple", values[1], values[2], values[3]>>

\* C11: Apply, Apply2 or Apply3 on a sequence that keeps one, two or three
\* of its steps succeeds exactly when every step succeeds in turn, and then
\* its value is the combiner's value for the kept steps' values in the order
\* the steps ran, without any skipped step's value, and its cursor is the
\* cursor after the last step.
C11_ApplyPassesKeptInOrder ==
    Returned("Apply") =>
        LET pattern == call.args[1]
            steps == StepsFrom(pattern, call.args[2], 1, call.entry, <<>>)
        IN  /\ res.err = Nil <=> steps.ok
            /\ res.err = Nil =>
                   /\ Len(steps.values) = Cardinality(Kept(pattern))
                   /\ res.val = Combined(steps.values)
                   /\ res.next = steps.cur

\* Apply3 succeeded on a sequence that skips a step between kept ones and
\* whose steps consumed input
C11_Witness ==
    /\ Returned("Apply")
    /\ res.err = Nil
    /\ Cardinality(Kept(call.args[1])) = 3
    /\ \E k \in 2..(Len(call.args[1]) - 1) :
           /\ ~call.args[1][k]
           /\ call.args[1][k - 1]
           /\ call.args[1][k + 1]
    /\ res.next.offset >= call.entry.offset + 2

\* a cursor into the input of the run, between its start and its end
InBounds(st) ==
    /\ st.data = data
    /\ 0 <= st.offset
    /\ st.offset <= Len(data)

\* C12: every cursor a call is entered with, holds while it loops, or
\* returns, on success or on failure, carries the data string Parse was
\* given and an offset from 0 to len(data).
C12_CursorsInBounds ==
    /\ InBounds(call.entry)
    /\ InBounds(current)
    /\ InBounds(res.next)
    /\ \A k \in 1..Len(trace) : InBounds(trace[k].cur)

\* Exactly was asked for a token longer than what remains of the input and
\* failed where it was entered
C12_Witness ==
    /\ Returned("Exactly")
    /\ Len(call.args[1]) > Len(data) - call.entry.offset
    /\ call.entry.offset < Len(data)
    /\ SubSeq(call.args[1], 1, Len(data) - call.entry.offset) = remaining(call.entry)
    /\ Failed(res)
    /\ res.next = call.entry

\* pass i of the running Loop met the condition on step parsers: its step
\* parser returned, and consumed at least one byte if it yielded Continue
StepConsumed(i) ==
    With(Run(ApplyStepper(call.args[2], trace[i].acc), trace[i].cur), LAMBDA r :
        /\ r.err # Diverges
        /\ r.err = Nil /\ ~StepDone(r.val) =>
               r.next.offset >= trace[i].cur.offset + 1)

\* C13: a Loop whose step parsers all return, and consume at least one byte
\* whenever they yield Continue, makes at most len(remaining input) + 1
\* passes: after len(remaining input) passes that went round again the next
\* one fails or is Done, and the Loop never hangs.  The steps of the example
\* bindingsParser meet the condition on every input.
C13_LoopTerminates ==
    call.op = "Loop" =>
        LET rem == Len(data) - call.entry.offset
            passes == Len(trace)
        IN  /\ (\A i \in 1..passes : StepConsumed(i)) =>
                   /\ pc # "hung"
                   /\ passes <= rem + 1
                   /\ pc = "loop" => passes <= rem /\ passes < MaxIters
            /\ call.args[2] = <<"bindings">> =>
                   \A i \in 1..passes : StepConsumed(i)

\* a Loop whose steps consume one byte each returned Done in the last pass
\* the bound allows
C13_Witness ==
    /\ Returned("Loop")
    /\ res.err = Nil
    /\ Len(trace) >= 3
    /\ Len(trace) = Len(data) - call.entry.offset + 1
    /\ \A i \in 1..Len(trace) : StepConsumed(i)

===========================================================================
